---- MODULE Spec2Model ----
(***************************************************************************)
(* A model of the go-opensearch wrapper (pkg/opensearch): the connection   *)
(* handle (client.go), the document, bulk, search and index operations     *)
(* (crud.go) and the response shapes (models.go).  Each exported function  *)
(* is an operator that computes, from the cluster's state and the fate of  *)
(* its one request, what the function returns and what the cluster holds   *)
(* afterwards; one action per function applies it and records the call in  *)
(* `last`.                                                                 *)
(***************************************************************************)
EXTENDS Integers, Sequences, FiniteSets, TLC

VARIABLES
    client,   \* the handle the caller holds: NoClient or a Client record
    server,   \* the cluster: for every index name, NoIndex or its documents
    last,     \* the most recent call: its arguments, its request, its results
    running,  \* the goroutines calling through the handle at the same time
    heap      \* the query documents the caller holds, by reference

vars == <<client, server, last, running, heap>>

----------------------------------------------------------------------------
(* Bounds of the model. *)

\* Longest address list handed to NewClient.
MaxAddrs == 2
\* Longest document list handed to BulkCreate.
MaxDocs == 2
\* Most documents with server-assigned identifiers an index may hold.
MaxAuto == 1
\* Goroutines that call through one handle at the same time.
MaxCallers == 2
\* Longest clause list handed to BoolQuery.
MaxClauses == 2
\* Documents "1", "2", ... of the search scenario.
MaxSearchIds == 4
\* Documents an index is filled with before everything in it is asked for.
MaxStored == 11
\* Query documents the caller holds at the same time.
MaxHeap == 2

----------------------------------------------------------------------------
(* Alphabets the inputs are drawn from. *)

\* Endpoints: a reachable node, a well-formed URL nobody listens on, and a
\* string net/url cannot parse (leading blanks before the scheme).
Addrs == {"http://localhost:9200", "http://invalid-host:9999", "  http://localhost:9200  "}
Unparsable == {"  http://localhost:9200  "}
Unreachable == {"http://invalid-host:9999"}

\* Index names the document operations are aimed at, and all index names.
DocIndices == {"articles"}
Indices == {"articles", "users", "logs"}

\* Caller-chosen document identifiers "1", "2", ... and the identifiers the
\* server makes up for documents indexed without one.
Ids == {1, 2}
AutoIds == {-k : k \in 1..MaxAuto}

Fields == {"title", "value"}
Numbers == {100, 200}

\* A Go value: its dynamic type and its content.  An identifier is a string
\* that spells a number and is held as that number; any other string is held
\* as itself.
GoInt(n) == [t |-> "int", n |-> n]
GoFloat(n) == [t |-> "float64", n |-> n]
GoString(n) == [t |-> "string", n |-> n]
GoValues == {GoInt(n) : n \in Numbers}
\* The nil interface{}.
GoNil == [t |-> "nil", n |-> 0]
\* A Go bool.
GoBool(b) == [t |-> "bool", n |-> IF b THEN 1 ELSE 0]
\* A value encoding/json has no encoding for: a channel.
GoChan == [t |-> "chan", n |-> 0]

\* map[string]interface{} over the fields: every partial map.
PartialMaps(D, R) == UNION {[S -> R] : S \in SUBSET D}
GoDocs == PartialMaps(Fields, GoValues)
EmptyMap == [f \in {} |-> GoInt(0)]

\* Go's nil error, an error made of its message (fmt.Errorf), and err.Error().
Nil == <<>>
Error(msg) == <<msg>>
Message(err) == err[1]

----------------------------------------------------------------------------
(* encoding/json, as the code uses it. *)

\* json.Marshal of one value: the dynamic type is not written, only the
\* JSON kind and the content.
JSONEncode(v) == [j |-> IF v.t = "string" THEN "string" ELSE "number", n |-> v.n]

\* json.Unmarshal into interface{}: every JSON number becomes a float64.
JSONDecode(j) == IF j.j = "string" THEN GoString(j.n) ELSE GoFloat(j.n)

\* json.Marshal(document) for a map.
Marshal(document) == [f \in DOMAIN document |-> JSONEncode(document[f])]

\* The error json.Marshal returns for a map: nil, unless one of the values
\* is of a type it cannot encode.
UnsupportedType == "json: unsupported type: chan int"
MarshalError(document) ==
    IF \E f \in DOMAIN document : document[f].t = "chan"
    THEN Error(UnsupportedType)
    ELSE Nil

\* parseResponse: the body decoded into Go values.
parseResponse(body) == [f \in DOMAIN body |-> JSONDecode(body[f])]

----------------------------------------------------------------------------
(* The cluster behind the REST API, as far as the wrapper's requests see it. *)

\* An index: whether it exists, its documents by identifier (the stored
\* JSON), and the documents a search sees (those of the last refresh).
NoIndex == [exists |-> FALSE, docs |-> <<>>, visible |-> <<>>]
EmptyIndex == [exists |-> TRUE, docs |-> <<>>, visible |-> <<>>]

Stored(srv, index, id) == srv[index].exists /\ id \in DOMAIN srv[index].docs

Put(m, k, v) == [x \in DOMAIN m \cup {k} |-> IF x = k THEN v ELSE m[x]]
Remove(m, k) == [x \in DOMAIN m \ {k} |-> m[x]]

\* The index holding `docs` after a write; with refresh=true the write is
\* searchable when the request returns.
Written(srv, index, docs, refresh) ==
    [srv EXCEPT ![index] = [exists |-> TRUE, docs |-> docs,
                            visible |-> IF refresh THEN docs ELSE srv[index].visible]]

StatusOK == 200
StatusCreated == 201
StatusBadRequest == 400
StatusNotFound == 404

\* The fate of one request: the server answers it ("ok"), the transport
\* fails before any answer ("transport"), something on the way answers with
\* a status of its own without the cluster acting ("status"), or the
\* caller's context is cancelled or expired before the call ("cancelled").
FaultStatuses == {301, StatusNotFound, 503}
NetOk == [kind |-> "ok", status |-> 0]
NetDown == [kind |-> "transport", status |-> 0]
Cancelled == [kind |-> "cancelled", status |-> 0]
Nets ==
    {NetOk, NetDown, Cancelled}
        \cup {[kind |-> "status", status |-> s] : s \in FaultStatuses}

\* opensearchapi.Response.IsError.
IsError(status) == status > 299

\* res.Status(), the text an error message carries.
StatusText(status) == ToString(status)

\* The errors req.Do returns: the transport failed, or the context was done.
TransportError == "transport error"
ContextError == "context canceled"

\* The client NewClient makes keeps the library's retry settings, which its
\* configuration does not name: a request is sent again, up to MaxRetries
\* times, after a transport error and after status 502, 503 or 504.
MaxRetries == 3
RetryOnStatus == {502, 503, 504}

\* The requests that go out for one req.Do while the fault lasts.
Attempts(net) ==
    CASE net.kind = "cancelled" -> 0
      [] net.kind = "transport" -> 1 + MaxRetries
      [] net.kind = "status" /\ net.status \in RetryOnStatus -> 1 + MaxRetries
      [] OTHER -> 1

\* req.Do(ctx, c.client): one call of the transport.  `response` is what the
\* cluster would answer, and the state it would be in, if the request
\* reached it.
Do(net, srv, response) ==
    CASE net.kind = "cancelled" ->
            [failed |-> TRUE, err |-> ContextError, status |-> 0, body |-> <<>>,
             srv |-> srv, attempts |-> Attempts(net)]
      [] net.kind = "transport" ->
            [failed |-> TRUE, err |-> TransportError, status |-> 0, body |-> <<>>,
             srv |-> srv, attempts |-> Attempts(net)]
      [] net.kind = "status" ->
            [failed |-> FALSE, err |-> "", status |-> net.status, body |-> <<>>,
             srv |-> srv, attempts |-> Attempts(net)]
      [] OTHER ->
            [failed |-> FALSE, err |-> "", status |-> response.status,
             body |-> response.body, srv |-> response.srv, attempts |-> Attempts(net)]

\* The fate of a request that carries context.Background() instead of the
\* caller's context.
Background(net) == IF net.kind = "cancelled" THEN NetOk ELSE net

\* PUT /<index>/_doc/<id>: stores the body under the identifier, creating the
\* index when it is missing; 201 for a new document, 200 for a replaced one.
IndexRequest(srv, index, id, body, refresh) ==
    [status |-> IF Stored(srv, index, id) THEN StatusOK ELSE StatusCreated,
     body |-> <<>>,
     srv |-> Written(srv, index, Put(srv[index].docs, id, body), refresh)]

\* GET /<index>/_doc/<id>.
GetRequest(srv, index, id) ==
    IF Stored(srv, index, id)
    THEN [status |-> StatusOK, body |-> srv[index].docs[id], srv |-> srv]
    ELSE [status |-> StatusNotFound, body |-> <<>>, srv |-> srv]

\* POST /<index>/_update/<id> with {"doc": ...}: the given fields replace or
\* join the stored ones.
UpdateRequest(srv, index, id, body, refresh) ==
    IF Stored(srv, index, id)
    THEN LET old == srv[index].docs[id]
             new == [f \in DOMAIN old \cup DOMAIN body.doc |->
                        IF f \in DOMAIN body.doc THEN body.doc[f] ELSE old[f]]
         IN  [status |-> StatusOK, body |-> <<>>,
              srv |-> Written(srv, index, Put(srv[index].docs, id, new), refresh)]
    ELSE [status |-> StatusNotFound, body |-> <<>>, srv |-> srv]

\* DELETE /<index>/_doc/<id>.
DeleteRequest(srv, index, id, refresh) ==
    IF Stored(srv, index, id)
    THEN [status |-> StatusOK, body |-> <<>>,
          srv |-> Written(srv, index, Remove(srv[index].docs, id), refresh)]
    ELSE [status |-> StatusNotFound, body |-> <<>>, srv |-> srv]

\* PUT /<index>.
IndicesCreateRequest(srv, index) ==
    IF srv[index].exists
    THEN [status |-> StatusBadRequest, body |-> <<>>, srv |-> srv]
    ELSE [status |-> StatusOK, body |-> <<>>, srv |-> [srv EXCEPT ![index] = EmptyIndex]]

\* DELETE /<index>.
IndicesDeleteRequest(srv, index) ==
    IF srv[index].exists
    THEN [status |-> StatusOK, body |-> <<>>, srv |-> [srv EXCEPT ![index] = NoIndex]]
    ELSE [status |-> StatusNotFound, body |-> <<>>, srv |-> srv]

\* HEAD /<index>.
IndicesExistsRequest(srv, index) ==
    [status |-> IF srv[index].exists THEN StatusOK ELSE StatusNotFound,
     body |-> <<>>, srv |-> srv]

\* HEAD / and GET /.
PingRequest(srv) == [status |-> StatusOK, body |-> <<>>, srv |-> srv]
ClusterInfo == [name |-> [j |-> "string", n |-> 1], cluster_name |-> [j |-> "string", n |-> 2]]
InfoRequest(srv) == [status |-> StatusOK, body |-> ClusterInfo, srv |-> srv]

\* A leaf clause against a stored document: {"match_all": {}} selects every
\* document, {"term": {field: value}} those that have the field with exactly
\* that value.
LeafMatches(leaf, doc) ==
    IF "term" \in DOMAIN leaf
    THEN \A f \in DOMAIN leaf.term : f \in DOMAIN doc /\ doc[f] = JSONEncode(leaf.term[f])
    ELSE "match_all" \in DOMAIN leaf

\* The query document's "query" against a stored document: a leaf, or a
\* "bool" whose "must" clauses all hold and whose "must_not" clauses all fail.
Matches(query, doc) ==
    LET q == query.query
        Clauses(key) == IF key \in DOMAIN q.bool THEN q.bool[key].elems ELSE <<>>
    IN  IF "bool" \in DOMAIN q
        THEN /\ \A k \in 1..Len(Clauses("must")) : LeafMatches(Clauses("must")[k], doc)
             /\ \A k \in 1..Len(Clauses("must_not")) :
                    ~LeafMatches(Clauses("must_not")[k], doc)
        ELSE LeafMatches(q, doc)

\* The hits of the selected documents, by identifier, those with
\* server-assigned identifiers last.  `stored` says that the hit carries
\* "_source".

RECURSIVE HitsOf(_, _, _)
HitsOf(docs, query, ids) ==
    IF ids = {} THEN <<>>
    ELSE LET pos == {i \in ids : i > 0}
             id == IF pos # {} THEN CHOOSE i \in pos : \A k \in pos : i <= k
                   ELSE CHOOSE i \in ids : \A k \in ids : i >= k
             rest == HitsOf(docs, query, ids \ {id})
         IN  IF Matches(query, docs[id])
             THEN <<[id |-> id, score |-> 1, stored |-> TRUE, source |-> docs[id]]>> \o rest
             ELSE rest

\* The page of hits a search answers with: "size" hits, ten when the query
\* document names no size.
DefaultSize == 10
Size(query) == IF "size" \in DOMAIN query THEN query.size.n ELSE DefaultSize

\* A query document with "_source": false asks for hits without the stored
\* body.
SourceOff(query) == "_source" \in DOMAIN query /\ query["_source"] = GoBool(FALSE)

\* POST /<index>/_search: the first page of the searchable documents the
\* query selects, each hit with its "_source" unless the query turns it off.
SearchRequest(srv, index, query) ==
    IF srv[index].exists
    THEN LET hits == HitsOf(srv[index].visible, query, DOMAIN srv[index].visible)
             size == IF Len(hits) < Size(query) THEN Len(hits) ELSE Size(query)
             page == SubSeq(hits, 1, size)
         IN  [status |-> StatusOK,
              body |-> IF SourceOff(query)
                       THEN [k \in 1..Len(page) |->
                                [page[k] EXCEPT !.stored = FALSE, !.source = <<>>]]
                       ELSE page,
              srv |-> srv]
    ELSE [status |-> StatusNotFound, body |-> <<>>, srv |-> srv]

----------------------------------------------------------------------------
(* client.go *)

\* A nil *opensearch.Client and a nil *Client.
NilOpenSearch == [isNil |-> TRUE, addrs |-> <<>>, username |-> "", password |-> "",
                  insecure |-> FALSE]
NoClient == [isNil |-> TRUE, client |-> NilOpenSearch]

\* A []string: nil or not, and its elements.
Slice(elems) == [isNil |-> FALSE, elems |-> elems]
NilSlice == [isNil |-> TRUE, elems |-> <<>>]
len(slice) == Len(slice.elems)

Range(seq) == {seq[i] : i \in 1..Len(seq)}
SeqsUpTo(S, n) == UNION {[1..k -> S] : k \in 0..n}

Configs ==
    [Addresses : {NilSlice} \cup {Slice(a) : a \in SeqsUpTo(Addrs, MaxAddrs)},
     Username : {"", "admin"},
     Password : {"admin"},
     InsecureSkipVerify : BOOLEAN]

\* opensearch.NewClient(cfg): the library parses every address as a URL and
\* fails on the first one it cannot parse; it opens no connection.
opensearchNewClient(cfg) ==
    IF \E a \in Range(cfg.Addresses.elems) : a \in Unparsable
    THEN [client |-> NilOpenSearch, err |-> Error("cannot create client: cannot parse url")]
    ELSE [client |-> [isNil |-> FALSE, addrs |-> cfg.Addresses.elems,
                      username |-> cfg.Username, password |-> cfg.Password,
                      insecure |-> cfg.InsecureSkipVerify],
          err |-> Nil]

\* NewClient: the handle and the error it returns, and the requests it sends.
NewClient(config) ==
    IF len(config.Addresses) = 0
    THEN [handle |-> NoClient, err |-> Error("at least one address is required"), sent |-> 0]
    ELSE LET made == opensearchNewClient(config)
         IN  IF made.err # Nil
             THEN [handle |-> NoClient,
                   err |-> Error("failed to create OpenSearch client: " \o Message(made.err)),
                   sent |-> 0]
             ELSE [handle |-> [isNil |-> FALSE, client |-> made.client],
                   err |-> Nil, sent |-> 0]

\* What may happen to a request sent through the handle: it goes to one of
\* the handle's addresses, and nobody answers at an unreachable one.
NetsFor(c) ==
    (IF Range(c.client.addrs) \ Unreachable # {} THEN Nets ELSE {})
        \cup (IF Range(c.client.addrs) \cap Unreachable # {} THEN {NetDown} ELSE {})

\* What every function returns unless it says otherwise.
Returns(srv) ==
    [err |-> Nil, sent |-> 0, status |-> 0, srv |-> srv,
     doc |-> <<>>, docNil |-> TRUE,
     found |-> FALSE,
     hits |-> <<>>, hitsNil |-> TRUE,
     request |-> <<>>, docsAfter |-> <<>>,
     search |-> <<>>, attempts |-> 0,
     errors |-> FALSE, items |-> <<>>]

\* A function's result after its request: the request went out, and the
\* cluster is as the request left it.
Sent(res) ==
    [Returns(res.srv) EXCEPT !.sent = 1, !.status = res.status, !.attempts = res.attempts]

\* Ping without its status check.
PingUnchecked(srv, net) ==
    LET res == Do(net, srv, PingRequest(srv))
    IN  IF res.failed
        THEN [Sent(res) EXCEPT !.err = Error("ping failed: " \o res.err)]
        ELSE Sent(res)

Ping(srv, net) ==
    LET res == Do(net, srv, PingRequest(srv))
    IN  IF res.failed
        THEN [Sent(res) EXCEPT !.err = Error("ping failed: " \o res.err)]
        ELSE IF IsError(res.status)
        THEN [Sent(res) EXCEPT !.err = Error("ping failed with status: " \o StatusText(res.status))]
        ELSE Sent(res)

\* Info calls c.client.Info() without the context it was given.
Info(srv, net) ==
    LET res == Do(Background(net), srv, InfoRequest(srv))
    IN  IF res.failed
        THEN [Sent(res) EXCEPT !.err = Error("failed to get cluster info: " \o res.err)]
        ELSE IF IsError(res.status)
        THEN [Sent(res) EXCEPT
                !.err = Error("info request failed with status: " \o StatusText(res.status))]
        ELSE [Sent(res) EXCEPT !.doc = parseResponse(res.body), !.docNil = FALSE]

GetClient(c) == c.client

----------------------------------------------------------------------------
(* models.go: query builders.  A query document is a map from keys to maps,
   lists of maps (slices) and values. *)

\* map[string]interface{}{key: value}.
Map1(key, value) == [k \in {key} |-> value]

MatchAllQuery == [query |-> [match_all |-> EmptyMap]]

TermQuery(field, value) == [query |-> [term |-> Map1(field, value)]]

\* The negated term query with its leaf under "must".
NotTermQueryAsMust(field, value) ==
    [query |-> [bool |-> [must |-> Slice(<<[term |-> Map1(field, value)]>>)]]]

NotTermQuery(field, value) ==
    [query |-> [bool |-> [must_not |-> Slice(<<[term |-> Map1(field, value)]>>)]]]

\* RangeQuery with both keys written whatever the bounds are.
RangeQueryBothKeys(field, gte, lte) ==
    [query |-> [range |-> Map1(field, [gte |-> gte, lte |-> lte])]]

RangeQuery(field, gte, lte) ==
    LET empty == EmptyMap
        lower == IF gte # GoNil THEN Put(empty, "gte", gte) ELSE empty
        rangeCondition == IF lte # GoNil THEN Put(lower, "lte", lte) ELSE lower
    IN  [query |-> [range |-> Map1(field, rangeCondition)]]

\* BoolQuery leaving out only the nil lists.
BoolQueryKeepsEmpty(must, should, mustNot) ==
    LET empty == EmptyMap
        b1 == IF ~must.isNil THEN Put(empty, "must", must) ELSE empty
        b2 == IF ~should.isNil THEN Put(b1, "should", should) ELSE b1
        boolQuery == IF ~mustNot.isNil THEN Put(b2, "must_not", mustNot) ELSE b2
    IN  [query |-> [bool |-> boolQuery]]

BoolQuery(must, should, mustNot) ==
    LET empty == EmptyMap
        b1 == IF len(must) > 0 THEN Put(empty, "must", must) ELSE empty
        b2 == IF len(should) > 0 THEN Put(b1, "should", should) ELSE b1
        boolQuery == IF len(mustNot) > 0 THEN Put(b2, "must_not", mustNot) ELSE b2
    IN  [query |-> [bool |-> boolQuery]]

\* MatchQuery takes the value as a string.
MatchQuery(field, value) == [query |-> [match |-> Map1(field, GoString(value))]]

\* The negated match query with its leaf under "must".
NotMatchQueryAsMust(field, value) ==
    [query |-> [bool |-> [must |-> Slice(<<[match |-> Map1(field, GoString(value))]>>)]]]

NotMatchQuery(field, value) ==
    [query |-> [bool |-> [must_not |-> Slice(<<[match |-> Map1(field, GoString(value))]>>)]]]

\* The orders in which `for field, value := range fieldValues` may visit the
\* entries of a map: Go fixes none, every order of the keys can come up.
RangeOrders(fieldValues) ==
    LET keys == DOMAIN fieldValues
    IN  {order \in [1..Cardinality(keys) -> keys] :
            \A i, j \in 1..Cardinality(keys) : i # j => order[i] # order[j]}

\* MatchMapQuery with the whole map in one match leaf.
MatchMapQueryOneLeaf(fieldValues, order) ==
    [query |-> [bool |-> [must |-> Slice(<<[match |-> fieldValues]>>)]]]

\* MatchMapQuery, `order` being the order in which range visited the map:
\* make([]..., 0, len) and one append per entry.
MatchMapQuery(fieldValues, order) ==
    LET mustClauses ==
            Slice([k \in 1..Len(order) |->
                      [match |-> Map1(order[k], fieldValues[order[k]])]])
    IN  [query |-> [bool |-> [must |-> mustClauses]]]

\* NotMatchMapQuery with only the first entry visited.
NotMatchMapQueryFirstOnly(fieldValues, order) ==
    [query |-> [bool |-> [must_not |->
        Slice([k \in 1..(IF Len(order) > 0 THEN 1 ELSE 0) |->
                  [match |-> Map1(order[k], fieldValues[order[k]])]])]]]

\* NotMatchMapQuery, the negated form of MatchMapQuery: one leaf per entry
\* of the map, under "must_not".
NotMatchMapQuery(fieldValues, order) ==
    LET mustNotClauses ==
            Slice([k \in 1..Len(order) |->
                      [match |-> Map1(order[k], fieldValues[order[k]])]])
    IN  [query |-> [bool |-> [must_not |-> mustNotClauses]]]

----------------------------------------------------------------------------
(* models.go: modifiers.  A Go map is a reference: the caller and the
   modifier hold the same query document.  `h` is the heap of query
   documents, a reference is a position in it. *)

\* A builder's return value: a map that did not exist before.
New(h, document) == [heap |-> Append(h, document), ref |-> Len(h) + 1]

\* WithSize making the document anew from the query and the size.
WithSizeRebuilds(h, query, size) ==
    [heap |-> [h EXCEPT ![query] = [query |-> h[query].query, size |-> GoInt(size)]],
     ref |-> query]

\* query["size"] = size; return query
WithSize(h, query, size) ==
    [heap |-> [h EXCEPT ![query] = Put(h[query], "size", GoInt(size))],
     ref |-> query]

\* WithFrom setting the key in a copy of the document and returning the copy.
WithFromCopies(h, query, from) ==
    New(h, Put(h[query], "from", GoInt(from)))

\* query["from"] = from; return query
WithFrom(h, query, from) ==
    [heap |-> [h EXCEPT ![query] = Put(h[query], "from", GoInt(from))],
     ref |-> query]

\* The one-entry sort list {field: {"order": order}}.
SortBy(field, order) == Map1(field, [order |-> order])

\* WithSort adding its entry to the sort list the document has.
WithSortAppends(h, query, field, order) ==
    LET sort == IF "sort" \in DOMAIN h[query]
                THEN Slice(Append(h[query].sort.elems, SortBy(field, order)))
                ELSE Slice(<<SortBy(field, order)>>)
    IN  [heap |-> [h EXCEPT ![query] = Put(h[query], "sort", sort)], ref |-> query]

\* query["sort"] = []map[string]interface{}{{field: {"order": order}}}; return query
WithSort(h, query, field, order) ==
    [heap |-> [h EXCEPT ![query] = Put(h[query], "sort", Slice(<<SortBy(field, order)>>))],
     ref |-> query]

----------------------------------------------------------------------------
(* crud.go: documents *)

\* CreateDocument without its status check.
CreateDocumentUnchecked(srv, net, index, id, document) ==
    LET body == Marshal(document)
        res == Do(net, srv, IndexRequest(srv, index, id, body, TRUE))
    IN  IF res.failed
        THEN [Sent(res) EXCEPT !.err = Error("failed to index document: " \o res.err)]
        ELSE Sent(res)

CreateDocument(srv, net, index, id, document) ==
    LET err == MarshalError(document)
        body == Marshal(document)
        res == Do(net, srv, IndexRequest(srv, index, id, body, TRUE))
    IN  IF err # Nil
        THEN [Returns(srv) EXCEPT !.err = Error("failed to marshal document: " \o Message(err))]
        ELSE IF res.failed
        THEN [Sent(res) EXCEPT !.err = Error("failed to index document: " \o res.err)]
        ELSE IF IsError(res.status)
        THEN [Sent(res) EXCEPT
                !.err = Error("index request failed with status: " \o StatusText(res.status))]
        ELSE Sent(res)

\* GetDocument taking every error status for a missing document.
GetDocumentAllNotFound(srv, net, index, id) ==
    LET res == Do(net, srv, GetRequest(srv, index, id))
    IN  IF res.failed
        THEN [Sent(res) EXCEPT !.err = Error("failed to get document: " \o res.err)]
        ELSE IF IsError(res.status)
        THEN [Sent(res) EXCEPT !.err = Error("document not found")]
        ELSE [Sent(res) EXCEPT !.doc = parseResponse(res.body), !.docNil = FALSE]

GetDocument(srv, net, index, id) ==
    LET res == Do(net, srv, GetRequest(srv, index, id))
    IN  IF res.failed
        THEN [Sent(res) EXCEPT !.err = Error("failed to get document: " \o res.err)]
        ELSE IF IsError(res.status)
        THEN IF res.status = StatusNotFound
             THEN [Sent(res) EXCEPT !.err = Error("document not found")]
             ELSE [Sent(res) EXCEPT
                     !.err = Error("get request failed with status: " \o StatusText(res.status))]
        ELSE [Sent(res) EXCEPT !.doc = parseResponse(res.body), !.docNil = FALSE]

\* UpdateDocument sending the updates as the whole document instead of
\* wrapping them in {"doc": ...} for the update API.
UpdateDocumentReplaces(srv, net, index, id, updates) ==
    LET body == Marshal(updates)
        res == Do(net, srv,
                  IF Stored(srv, index, id)
                  THEN IndexRequest(srv, index, id, body, TRUE)
                  ELSE [status |-> StatusNotFound, body |-> <<>>, srv |-> srv])
    IN  IF res.failed
        THEN [Sent(res) EXCEPT !.err = Error("failed to update document: " \o res.err)]
        ELSE IF IsError(res.status)
        THEN IF res.status = StatusNotFound
             THEN [Sent(res) EXCEPT !.err = Error("document not found")]
             ELSE [Sent(res) EXCEPT
                     !.err = Error("update request failed with status: " \o StatusText(res.status))]
        ELSE Sent(res)

UpdateDocument(srv, net, index, id, updates) ==
    LET updateDoc == [doc |-> updates]
        err == MarshalError(updateDoc.doc)
        body == [doc |-> Marshal(updateDoc.doc)]
        res == Do(net, srv, UpdateRequest(srv, index, id, body, TRUE))
    IN  IF err # Nil
        THEN [Returns(srv) EXCEPT !.err = Error("failed to marshal updates: " \o Message(err))]
        ELSE IF res.failed
        THEN [Sent(res) EXCEPT !.err = Error("failed to update document: " \o res.err)]
        ELSE IF IsError(res.status)
        THEN IF res.status = StatusNotFound
             THEN [Sent(res) EXCEPT !.err = Error("document not found")]
             ELSE [Sent(res) EXCEPT
                     !.err = Error("update request failed with status: " \o StatusText(res.status))]
        ELSE Sent(res)

\* DeleteDocument without Refresh: "true".
DeleteDocumentNoRefresh(srv, net, index, id) ==
    LET res == Do(net, srv, DeleteRequest(srv, index, id, FALSE))
    IN  IF res.failed
        THEN [Sent(res) EXCEPT !.err = Error("failed to delete document: " \o res.err)]
        ELSE IF IsError(res.status)
        THEN IF res.status = StatusNotFound
             THEN [Sent(res) EXCEPT !.err = Error("document not found")]
             ELSE [Sent(res) EXCEPT
                     !.err = Error("delete request failed with status: " \o StatusText(res.status))]
        ELSE Sent(res)

\* DeleteDocument taking a missing document for a deleted one.
DeleteDocumentIdempotent(srv, net, index, id) ==
    LET res == Do(net, srv, DeleteRequest(srv, index, id, TRUE))
    IN  IF res.failed
        THEN [Sent(res) EXCEPT !.err = Error("failed to delete document: " \o res.err)]
        ELSE IF IsError(res.status) /\ res.status # StatusNotFound
        THEN [Sent(res) EXCEPT
                !.err = Error("delete request failed with status: " \o StatusText(res.status))]
        ELSE Sent(res)

DeleteDocument(srv, net, index, id) ==
    LET res == Do(net, srv, DeleteRequest(srv, index, id, TRUE))
    IN  IF res.failed
        THEN [Sent(res) EXCEPT !.err = Error("failed to delete document: " \o res.err)]
        ELSE IF IsError(res.status)
        THEN IF res.status = StatusNotFound
             THEN [Sent(res) EXCEPT !.err = Error("document not found")]
             ELSE [Sent(res) EXCEPT
                     !.err = Error("delete request failed with status: " \o StatusText(res.status))]
        ELSE Sent(res)

\* One hit with the stored fields written over _id and _score.
HitDocStoredLast(hit) ==
    LET doc == parseResponse(hit.source)
    IN  [f \in DOMAIN doc \cup {"_id", "_score"} |->
            IF f \in DOMAIN doc THEN doc[f]
            ELSE IF f = "_score" THEN GoFloat(hit.score) ELSE GoString(hit.id)]

\* One hit as SearchDocuments returns it: the stored fields, then _id and
\* _score written over them.
HitDoc(hit) ==
    LET doc == parseResponse(hit.source)
    IN  [f \in DOMAIN doc \cup {"_id", "_score"} |->
            CASE f = "_score" -> GoFloat(hit.score)
              [] f = "_id" -> GoString(hit.id)
              [] OTHER -> doc[f]]

\* A hit without "_source" decodes into a Hit whose Source is a nil map,
\* and doc["_id"] = hit.ID on a nil map panics: the call does not return.
NilMapPanic == Error("panic: assignment to entry in nil map")

\* The error json.Marshal returns for a query document: that of the values
\* a term leaf compares with.
QueryMarshalError(query) ==
    IF "term" \in DOMAIN query.query THEN MarshalError(query.query.term) ELSE Nil

\* The request goes out with the index and the query document as its body.
SearchDocuments(srv, net, index, query) ==
    LET err == QueryMarshalError(query)
        body == query
        res == Do(net, srv, SearchRequest(srv, index, body))
        sent == [Sent(res) EXCEPT !.search = [index |-> index, body |-> body]]
    IN  IF err # Nil
        THEN [Returns(srv) EXCEPT !.err = Error("failed to marshal query: " \o Message(err))]
        ELSE IF res.failed
        THEN [sent EXCEPT !.err = Error("failed to search documents: " \o res.err)]
        ELSE IF IsError(res.status)
        THEN [sent EXCEPT
                !.err = Error("search request failed with status: " \o StatusText(res.status))]
        ELSE IF \E i \in 1..Len(res.body) : ~res.body[i].stored
        THEN [sent EXCEPT !.err = NilMapPanic]
        ELSE [sent EXCEPT
                !.hits = [i \in 1..Len(res.body) |-> HitDoc(res.body[i])],
                !.hitsNil = FALSE]

\* The query document SearchAll writes out.
MatchAll == [query |-> [match_all |-> EmptyMap]]

\* SearchAll asking for a page of its own size.
SearchAllSized(srv, net, index) ==
    SearchDocuments(srv, net, index,
                    [query |-> [match_all |-> EmptyMap], size |-> GoInt(MaxStored)])

SearchAll(srv, net, index) ==
    LET query == MatchAll
    IN  SearchDocuments(srv, net, index, query)

----------------------------------------------------------------------------
(* crud.go: indices *)

\* A map[string]interface{} that may be nil: CreateIndex's body.
NilMap == [isNil |-> TRUE, fields |-> <<>>]
MapOf(fields) == [isNil |-> FALSE, fields |-> fields]

\* The body, settings and mappings, is encoded when it is not nil; the
\* cluster makes the index whatever they say.
CreateIndex(srv, net, index, body) ==
    LET err == IF ~body.isNil THEN MarshalError(body.fields) ELSE Nil
        res == Do(net, srv, IndicesCreateRequest(srv, index))
    IN  IF err # Nil
        THEN [Returns(srv) EXCEPT !.err = Error("failed to marshal index body: " \o Message(err))]
        ELSE IF res.failed
        THEN [Sent(res) EXCEPT !.err = Error("failed to create index: " \o res.err)]
        ELSE IF IsError(res.status)
        THEN [Sent(res) EXCEPT
                !.err = Error("create index request failed with status: " \o StatusText(res.status))]
        ELSE Sent(res)

DeleteIndex(srv, net, index) ==
    LET res == Do(net, srv, IndicesDeleteRequest(srv, index))
    IN  IF res.failed
        THEN [Sent(res) EXCEPT !.err = Error("failed to delete index: " \o res.err)]
        ELSE IF IsError(res.status)
        THEN IF res.status = StatusNotFound
             THEN [Sent(res) EXCEPT !.err = Error("index not found")]
             ELSE [Sent(res) EXCEPT
                     !.err = Error("delete index request failed with status: " \o StatusText(res.status))]
        ELSE Sent(res)

\* IndexExists checking for an error status before it looks for 404.
IndexExistsErrorFirst(srv, net, index) ==
    LET res == Do(net, srv, IndicesExistsRequest(srv, index))
    IN  IF res.failed
        THEN [Sent(res) EXCEPT !.err = Error("failed to check index existence: " \o res.err)]
        ELSE IF IsError(res.status)
        THEN [Sent(res) EXCEPT
                !.err = Error("index exists request failed with status: " \o StatusText(res.status))]
        ELSE IF res.status = StatusNotFound
        THEN Sent(res)
        ELSE [Sent(res) EXCEPT !.found = TRUE]

IndexExists(srv, net, index) ==
    LET res == Do(net, srv, IndicesExistsRequest(srv, index))
    IN  IF res.failed
        THEN [Sent(res) EXCEPT !.err = Error("failed to check index existence: " \o res.err)]
        ELSE IF res.status = StatusNotFound
        THEN Sent(res)
        ELSE IF IsError(res.status)
        THEN [Sent(res) EXCEPT
                !.err = Error("index exists request failed with status: " \o StatusText(res.status))]
        ELSE [Sent(res) EXCEPT !.found = TRUE]

----------------------------------------------------------------------------
(* crud.go: BulkCreate *)

\* Documents as BulkCreate takes them: fields, with or without "_id".
WithId(doc, id) ==
    [f \in DOMAIN doc \cup {"_id"} |-> IF f = "_id" THEN GoString(id) ELSE doc[f]]
BulkBodies == [{"value"} -> GoValues]
Anonymous == [value |-> GoInt(100)]
BulkDocs == {Anonymous} \cup {WithId(doc, id) : doc \in BulkBodies, id \in Ids}

\* A line of the request body: an action line or a document line.
ActionLine(index, hasId, id) ==
    [action |-> TRUE, index |-> index, hasId |-> hasId, id |-> id, source |-> <<>>]
SourceLine(source) ==
    [action |-> FALSE, index |-> "", hasId |-> FALSE, id |-> JSONEncode(GoString(0)),
     source |-> source]

\* The loop without delete(doc, "_id"): the document line keeps the key.
RECURSIVE BulkLinesKeepId(_, _)
BulkLinesKeepId(index, documents) ==
    IF documents = <<>> THEN <<>>
    ELSE LET doc == Head(documents)
             hasId == "_id" \in DOMAIN doc
             action == IF hasId THEN [action |-> TRUE, index |-> index, hasId |-> TRUE,
                                      id |-> JSONEncode(doc["_id"]), source |-> <<>>]
                       ELSE [action |-> TRUE, index |-> index, hasId |-> FALSE,
                             id |-> JSONEncode(GoString(0)), source |-> <<>>]
         IN  <<action, [action |-> FALSE, index |-> "", hasId |-> FALSE,
                        id |-> JSONEncode(GoString(0)), source |-> Marshal(doc)]>>
                 \o BulkLinesKeepId(index, Tail(documents))

\* The loop writing "_id" into every action line, the key's zero value for
\* a document that has none.
RECURSIVE BulkLinesAlwaysId(_, _)
BulkLinesAlwaysId(index, documents) ==
    IF documents = <<>> THEN <<>>
    ELSE LET doc == Head(documents)
             hasId == "_id" \in DOMAIN doc
             action == IF hasId THEN ActionLine(index, TRUE, JSONEncode(doc["_id"]))
                       ELSE ActionLine(index, TRUE, JSONEncode(GoString(0)))
             rest == IF hasId THEN Remove(doc, "_id") ELSE doc
         IN  <<action, SourceLine(Marshal(rest))>>
                 \o BulkLinesAlwaysId(index, Tail(documents))

\* The loop over the documents: per document the action line, carrying the
\* document's "_id" when it has one, and the document without that key.
RECURSIVE BulkLines(_, _)
BulkLines(index, documents) ==
    IF documents = <<>> THEN <<>>
    ELSE LET doc == Head(documents)
             hasId == "_id" \in DOMAIN doc
             action == IF hasId THEN ActionLine(index, TRUE, JSONEncode(doc["_id"]))
                       ELSE ActionLine(index, FALSE, JSONEncode(GoString(0)))
             rest == IF hasId THEN Remove(doc, "_id") ELSE doc
         IN  <<action, SourceLine(Marshal(rest))>> \o BulkLines(index, Tail(documents))

\* The caller's documents when the loop is done: delete(doc, "_id") acts on
\* the caller's own maps.
DocsAfter(documents) ==
    [i \in 1..Len(documents) |->
        IF "_id" \in DOMAIN documents[i] THEN Remove(documents[i], "_id") ELSE documents[i]]

\* The identifier the server makes up for a document sent without one.
FreshId(srv, index) ==
    LET free == AutoIds \ DOMAIN srv[index].docs
    IN  CHOOSE a \in free : \A b \in free : a >= b

\* A rejected item's error.
ItemError(id) ==
    [type |-> "mapper_parsing_exception",
     reason |-> "failed to parse document " \o ToString(id)]
NoItemError == [type |-> "", reason |-> ""]

\* POST /_bulk: the items are applied in order; the ones the server rejects
\* (`rejects`, by position) leave no document and carry an error, the others
\* are indexed.  The answer is 200 with "errors" set when any item failed.
RECURSIVE BulkItems(_, _, _, _, _)
BulkItems(srv, lines, k, rejects, refresh) ==
    IF lines = <<>> THEN [srv |-> srv, items |-> <<>>]
    ELSE LET action == lines[1]
             id == IF action.hasId THEN action.id.n ELSE FreshId(srv, action.index)
             ok == k \notin rejects
             item == [id |-> id,
                      status |-> IF ~ok THEN StatusBadRequest
                                 ELSE IF Stored(srv, action.index, id) THEN StatusOK
                                 ELSE StatusCreated,
                      error |-> IF ok THEN NoItemError ELSE ItemError(id)]
             next == IF ok
                     THEN Written(srv, action.index,
                                  Put(srv[action.index].docs, id, lines[2].source), refresh)
                     ELSE srv
             rest == BulkItems(next, SubSeq(lines, 3, Len(lines)), k + 1, rejects, refresh)
         IN  [srv |-> rest.srv, items |-> <<item>> \o rest.items]

BulkRequest(srv, lines, rejects, refresh) ==
    LET done == BulkItems(srv, lines, 1, rejects, refresh)
    IN  [status |-> StatusOK,
         body |-> [errors |-> \E i \in 1..Len(done.items) : done.items[i].error.type # "",
                   items |-> done.items],
         srv |-> done.srv]

\* Only the first item that carries an error type.
ErrorMessagesFirstOnly(items) ==
    IF \E i \in 1..Len(items) : items[i].error.type # ""
    THEN LET i == CHOOSE i \in 1..Len(items) :
                      /\ items[i].error.type # ""
                      /\ \A j \in 1..(i - 1) : items[j].error.type = ""
         IN  <<items[i].error.type \o ": " \o items[i].error.reason>>
    ELSE <<>>

\* fmt.Sprintf("%s: %s", op.Error.Type, op.Error.Reason) of every item that
\* carries an error type, in the order of the response.
RECURSIVE ErrorMessages(_)
ErrorMessages(items) ==
    IF items = <<>> THEN <<>>
    ELSE (IF Head(items).error.type # ""
          THEN <<Head(items).error.type \o ": " \o Head(items).error.reason>>
          ELSE <<>>) \o ErrorMessages(Tail(items))

\* strings.Join.
RECURSIVE Join(_, _)
Join(elems, sep) ==
    CASE Len(elems) = 0 -> ""
      [] Len(elems) = 1 -> elems[1]
      [] OTHER -> elems[1] \o sep \o Join(Tail(elems), sep)

\* BulkCreate past its check for an empty list: the body is built, sent as
\* one request, and the response's item errors are gathered.
BulkSend(srv, net, index, documents, rejects) ==
    LET buf == BulkLines(index, documents)
        res == Do(net, srv, BulkRequest(srv, buf, rejects, TRUE))
        sent == [Sent(res) EXCEPT !.request = buf, !.docsAfter = DocsAfter(documents)]
        answered == [sent EXCEPT !.errors = res.body.errors, !.items = res.body.items]
    IN  IF res.failed
        THEN [sent EXCEPT !.err = Error("failed to perform bulk operation: " \o res.err)]
        ELSE IF IsError(res.status)
        THEN [sent EXCEPT
                !.err = Error("bulk request failed with status: " \o StatusText(res.status))]
        ELSE LET response == res.body
                 errorMessages == ErrorMessages(response.items)
             IN  IF response.errors /\ Len(errorMessages) > 0
                 THEN [answered EXCEPT
                         !.err = Error("bulk operation had errors: "
                                        \o Join(errorMessages, "; "))]
                 ELSE answered

\* BulkCreate without its check for an empty list.
BulkCreateAlwaysSends(srv, net, index, documents, rejects) ==
    BulkSend(srv, net, index, documents, rejects)

\* The error of one pass of the loop: the action line cannot be encoded
\* when the document's "_id" cannot, the document line when another of its
\* values cannot.
LineError(doc) ==
    IF "_id" \in DOMAIN doc /\ MarshalError(Map1("_id", doc["_id"])) # Nil
    THEN Error("failed to marshal bulk action: " \o UnsupportedType)
    ELSE IF MarshalError(Remove(doc, "_id")) # Nil
    THEN Error("failed to marshal document: " \o UnsupportedType)
    ELSE Nil

\* The pass of the loop that returns an error, 0 when none does.
FirstFailing(documents) ==
    LET failing == {k \in 1..Len(documents) : LineError(documents[k]) # Nil}
    IN  IF failing = {} THEN 0 ELSE CHOOSE k \in failing : \A j \in failing : k <= j

\* What BulkCreate returns from inside its loop: nothing was sent, and the
\* documents up to the failing one have lost their "_id".
Interrupted(srv, documents, failing) ==
    [Returns(srv) EXCEPT
        !.err = LineError(documents[failing]),
        !.docsAfter = DocsAfter(SubSeq(documents, 1, failing))
                          \o SubSeq(documents, failing + 1, Len(documents))]

\* BulkCreate sending the lines it has when a document cannot be encoded.
BulkCreateSendsPrefix(srv, net, index, documents, rejects) ==
    IF Len(documents) = 0 THEN Returns(srv)
    ELSE IF FirstFailing(documents) > 0
    THEN LET failing == FirstFailing(documents)
             flushed == BulkSend(srv, net, index, SubSeq(documents, 1, failing - 1),
                                 rejects \cap 1..(failing - 1))
         IN  [flushed EXCEPT !.err = LineError(documents[failing])]
    ELSE BulkSend(srv, net, index, documents, rejects)

BulkCreate(srv, net, index, documents, rejects) ==
    IF Len(documents) = 0 THEN Returns(srv)
    ELSE IF FirstFailing(documents) > 0
    THEN Interrupted(srv, documents, FirstFailing(documents))
    ELSE BulkSend(srv, net, index, documents, rejects)

----------------------------------------------------------------------------
(* The calls.  `last` holds the arguments of the most recent call next to
   everything the call returned and sent. *)

DefaultConfig ==
    [Addresses |-> Slice(<<"http://localhost:9200">>), Username |-> "admin",
     Password |-> "admin", InsecureSkipVerify |-> TRUE]

NoCall ==
    [op |-> "", config |-> DefaultConfig, index |-> "", id |-> 0,
     document |-> <<>>, documents |-> <<>>, query |-> MatchAll,
     net |-> NetOk, rejects |-> {}, underlying |-> NilOpenSearch,
     field |-> "", gte |-> GoNil, lte |-> GoNil,
     must |-> NilSlice, should |-> NilSlice, mustNot |-> NilSlice, built |-> <<>>,
     value |-> "", fieldValues |-> <<>>, visited |-> <<>>,
     ref |-> 0, returned |-> 0, size |-> 0, from |-> 0, order |-> "", before |-> <<>>,
     body |-> NilMap]

Record(call, ret) ==
    [k \in DOMAIN call \cup (DOMAIN ret \ {"srv"}) |->
        IF k \in DOMAIN call THEN call[k] ELSE ret[k]]

NoServer == [index \in Indices |-> NoIndex]
Started == Record(NoCall, Returns(NoServer))

\* No call is under way: the caller is done with the last call's results.
Idle == last.op = ""

\* The caller moves on from the last call's results.
Forget ==
    /\ ~Idle
    /\ last' = Started
    /\ UNCHANGED <<client, server, running, heap>>

CallNewClient ==
    /\ Idle
    /\ \E config \in Configs :
        LET r == NewClient(config)
        IN  /\ client' = r.handle
            /\ last' = Record([NoCall EXCEPT !.op = "NewClient", !.config = config],
                              [Returns(server) EXCEPT !.err = r.err, !.sent = r.sent])
            /\ UNCHANGED <<server, running, heap>>

CallGetClient ==
    /\ Idle
    /\ ~client.isNil
    /\ last' = Record([NoCall EXCEPT !.op = "GetClient", !.underlying = GetClient(client)],
                      Returns(server))
    /\ UNCHANGED <<client, server, running, heap>>

\* A call through the handle: its arguments, and what it returns.
Called(call, r) ==
    /\ server' = r.srv
    /\ last' = Record(call, r)
    /\ UNCHANGED <<client, running, heap>>

CallPing ==
    /\ Idle
    /\ ~client.isNil
    /\ \E net \in NetsFor(client) :
        Called([NoCall EXCEPT !.op = "Ping", !.net = net], Ping(server, net))

CallInfo ==
    /\ Idle
    /\ ~client.isNil
    /\ \E net \in NetsFor(client) :
        Called([NoCall EXCEPT !.op = "Info", !.net = net], Info(server, net))

CallCreateDocument(ids, documents) ==
    /\ Idle
    /\ ~client.isNil
    /\ \E net \in NetsFor(client), index \in DocIndices, id \in ids, document \in documents :
        Called([NoCall EXCEPT !.op = "CreateDocument", !.net = net, !.index = index,
                              !.id = id, !.document = document],
               CreateDocument(server, net, index, id, document))

CallGetDocument ==
    /\ Idle
    /\ ~client.isNil
    /\ \E net \in NetsFor(client), index \in DocIndices, id \in Ids :
        Called([NoCall EXCEPT !.op = "GetDocument", !.net = net, !.index = index, !.id = id],
               GetDocument(server, net, index, id))

CallUpdateDocument(documents) ==
    /\ Idle
    /\ ~client.isNil
    /\ \E net \in NetsFor(client), index \in DocIndices, id \in Ids, updates \in documents :
        Called([NoCall EXCEPT !.op = "UpdateDocument", !.net = net, !.index = index,
                              !.id = id, !.document = updates],
               UpdateDocument(server, net, index, id, updates))

CallDeleteDocument(ids) ==
    /\ Idle
    /\ ~client.isNil
    /\ \E net \in NetsFor(client), index \in DocIndices, id \in ids :
        Called([NoCall EXCEPT !.op = "DeleteDocument", !.net = net, !.index = index,
                              !.id = id],
               DeleteDocument(server, net, index, id))

Queries == {MatchAllQuery} \cup {TermQuery(f, v) : f \in Fields, v \in GoValues}

CallSearchDocuments(queries) ==
    /\ Idle
    /\ ~client.isNil
    /\ \E net \in NetsFor(client), index \in DocIndices, query \in queries :
        Called([NoCall EXCEPT !.op = "SearchDocuments", !.net = net, !.index = index,
                              !.query = query],
               SearchDocuments(server, net, index, query))

CallSearchAll ==
    /\ Idle
    /\ ~client.isNil
    /\ \E net \in NetsFor(client), index \in DocIndices :
        Called([NoCall EXCEPT !.op = "SearchAll", !.net = net, !.index = index],
               SearchAll(server, net, index))

\* The documents of a list that carry no "_id".
Unidentified(documents) == {i \in 1..Len(documents) : "_id" \notin DOMAIN documents[i]}

CallBulkCreate(docs) ==
    /\ Idle
    /\ ~client.isNil
    /\ \E net \in NetsFor(client), index \in DocIndices,
          documents \in SeqsUpTo(docs, MaxDocs) :
        \E rejects \in SUBSET (1..Len(documents)) :
            \* the server rejects items only of a request that reaches it
            /\ net.kind # "ok" => rejects = {}
            \* the model's cap on server-assigned identifiers
            /\ Cardinality(Unidentified(documents))
                 + Cardinality(DOMAIN server[index].docs \cap AutoIds) <= MaxAuto
            /\ Called([NoCall EXCEPT !.op = "BulkCreate", !.net = net, !.index = index,
                                     !.documents = documents, !.rejects = rejects],
                      BulkCreate(server, net, index, documents, rejects))

CallCreateIndex(names, bodies) ==
    /\ Idle
    /\ ~client.isNil
    /\ \E net \in NetsFor(client), index \in names, body \in bodies :
        Called([NoCall EXCEPT !.op = "CreateIndex", !.net = net, !.index = index,
                              !.body = body],
               CreateIndex(server, net, index, body))

CallDeleteIndex(names) ==
    /\ Idle
    /\ ~client.isNil
    /\ \E net \in NetsFor(client), index \in names :
        Called([NoCall EXCEPT !.op = "DeleteIndex", !.net = net, !.index = index],
               DeleteIndex(server, net, index))

CallIndexExists(names) ==
    /\ Idle
    /\ ~client.isNil
    /\ \E net \in NetsFor(client), index \in names :
        Called([NoCall EXCEPT !.op = "IndexExists", !.net = net, !.index = index],
               IndexExists(server, net, index))

\* The builders' inputs: fields, bounds (none, zero, a number) and lists of
\* leaf clauses (nil, empty, or up to MaxClauses leaves).
QueryFields == {"views", "value"}
Bounds == {GoNil, GoInt(0), GoInt(100), GoInt(500)}
Leaves == {[match_all |-> EmptyMap], [term |-> Map1("category", GoString("tutorial"))]}
ClauseLists == {NilSlice} \cup {Slice(q) : q \in SeqsUpTo(Leaves, MaxClauses)}

\* A builder was called: its arguments and the query document it returned.
Built(call) ==
    /\ last' = Record(call, Returns(server))
    /\ UNCHANGED <<client, server, running, heap>>

CallRangeQuery ==
    /\ Idle
    /\ \E field \in QueryFields, gte \in Bounds, lte \in Bounds :
        Built([NoCall EXCEPT !.op = "RangeQuery", !.field = field, !.gte = gte, !.lte = lte,
                             !.built = RangeQuery(field, gte, lte)])

CallBoolQuery ==
    /\ Idle
    /\ \E must \in ClauseLists, should \in ClauseLists, mustNot \in ClauseLists :
        Built([NoCall EXCEPT !.op = "BoolQuery", !.must = must, !.should = should,
                             !.mustNot = mustNot,
                             !.built = BoolQuery(must, should, mustNot)])

\* The categories of the example program's documents.
Categories == {"tutorial", "advanced"}

\* The inputs of the match builders: the fields and words of the example
\* program, and the maps over them.
MatchFields == {"category", "author"}
Words == {"tutorial", "Jane Smith"}
FieldValues == PartialMaps(MatchFields, {GoString(w) : w \in Words})

CallNotMatchQuery ==
    /\ Idle
    /\ \E field \in MatchFields, value \in Words :
        Built([NoCall EXCEPT !.op = "NotMatchQuery", !.field = field, !.value = value,
                             !.built = NotMatchQuery(field, value)])

CallNotTermQuery ==
    /\ Idle
    /\ \E field \in MatchFields, value \in Words :
        Built([NoCall EXCEPT !.op = "NotTermQuery", !.field = field, !.value = value,
                             !.built = NotTermQuery(field, GoString(value))])

CallMatchMapQuery ==
    /\ Idle
    /\ \E fieldValues \in FieldValues :
        \E order \in RangeOrders(fieldValues) :
            Built([NoCall EXCEPT !.op = "MatchMapQuery", !.fieldValues = fieldValues,
                                 !.visited = order,
                                 !.built = MatchMapQuery(fieldValues, order)])

CallNotMatchMapQuery ==
    /\ Idle
    /\ \E fieldValues \in FieldValues :
        \E order \in RangeOrders(fieldValues) :
            Built([NoCall EXCEPT !.op = "NotMatchMapQuery", !.fieldValues = fieldValues,
                                 !.visited = order,
                                 !.built = NotMatchMapQuery(fieldValues, order)])

\* The modifiers' inputs: the documents the caller holds, page numbers, and
\* sort fields and orders.  `before` is the document as it was at the call.
Pages == {10, 20}
SortFields == {"views"}
Orders == {"asc", "desc"}

\* A call that returns a query document by reference: the heap is as the
\* call left it, and the caller has the reference.
Referenced(call, r) ==
    /\ heap' = r.heap
    /\ last' = Record([call EXCEPT !.returned = r.ref], Returns(server))
    /\ UNCHANGED <<client, server, running>>

\* A builder call whose result the caller keeps.
CallMatchQuery ==
    /\ Idle
    /\ Len(heap) < MaxHeap
    /\ \E field \in {"category"}, value \in {"tutorial"} :
        Referenced([NoCall EXCEPT !.op = "MatchQuery", !.field = field, !.value = value],
                   New(heap, MatchQuery(field, value)))

CallWithSize ==
    /\ Idle
    /\ \E query \in DOMAIN heap, size \in Pages :
        Referenced([NoCall EXCEPT !.op = "WithSize", !.ref = query, !.size = size,
                                  !.before = heap[query]],
                   WithSize(heap, query, size))

CallWithFrom ==
    /\ Idle
    /\ \E query \in DOMAIN heap, from \in Pages :
        Referenced([NoCall EXCEPT !.op = "WithFrom", !.ref = query, !.from = from,
                                  !.before = heap[query]],
                   WithFrom(heap, query, from))

CallWithSort ==
    /\ Idle
    /\ \E query \in DOMAIN heap, field \in SortFields, order \in Orders :
        Referenced([NoCall EXCEPT !.op = "WithSort", !.ref = query, !.field = field,
                                  !.order = order, !.before = heap[query]],
                   WithSort(heap, query, field, order))

----------------------------------------------------------------------------
(* Goroutines sharing the handle, as in `go func() { ... client.Ping(ctx) }()`.
   Each holds the pointer to the one handle; its call reads the handle's
   client field when it runs, and the cluster serves one request at a time. *)

Callers == 1..MaxCallers

\* The calls the goroutines make, and the fates of their requests.
ConcurrentOps == {"Ping", "Info", "GetClient", "IndexExists", "CreateIndex"}
ConcurrentNets == {NetOk, NetDown}

NotRunning ==
    [pc |-> "", op |-> "", net |-> NetOk, index |-> "", via |-> NilOpenSearch,
     ret |-> Record(<<>>, Returns(NoServer))]
NoneRunning == [g \in Callers |-> NotRunning]

\* A method called on a nil *Client: reading c.client panics.
Panicked(srv) == [Returns(srv) EXCEPT !.err = Error("panic: nil pointer dereference")]

\* What the call returns when it runs on its own against the cluster.
Alone(op, srv, net, index) ==
    CASE op = "Ping" -> Ping(srv, net)
      [] op = "Info" -> Info(srv, net)
      [] op = "IndexExists" -> IndexExists(srv, net, index)
      [] op = "CreateIndex" -> CreateIndex(srv, net, index, NilMap)
      [] OTHER -> Returns(srv)

\* The handle given up after a call that failed.
HandleDroppedOnError(c, r) == IF r.err # Nil THEN NoClient ELSE c

\* The receiver after a method returned r: the methods read c.client and
\* assign nothing.
Receiver(c, r) == c

\* A goroutine is started with its call.
Go(g) ==
    /\ running[g].pc = ""
    /\ \E op \in ConcurrentOps, net \in ConcurrentNets, index \in DocIndices :
        /\ op = "GetClient" => net = NetOk
        /\ running' = [running EXCEPT ![g] = [NotRunning EXCEPT !.pc = "started", !.op = op,
                                                              !.net = net, !.index = index]]
    /\ UNCHANGED <<client, server, last, heap>>

\* The goroutine's call runs: it reads the handle, its request is served,
\* and it has its results.
Run(g) ==
    /\ running[g].pc = "started"
    /\ LET call == running[g]
           r == IF client.isNil THEN Panicked(server)
                ELSE Alone(call.op, server, call.net, call.index)
       IN  /\ running' = [running EXCEPT ![g] = [call EXCEPT !.pc = "returned",
                                                             !.via = GetClient(client),
                                                             !.ret = Record(<<>>, r)]]
           /\ server' = r.srv
           /\ client' = Receiver(client, r)
    /\ UNCHANGED <<last, heap>>

\* The results are collected; the goroutine is gone.
Collect(g) ==
    /\ running[g].pc = "returned"
    /\ running' = [running EXCEPT ![g] = NotRunning]
    /\ UNCHANGED <<client, server, last, heap>>

----------------------------------------------------------------------------
(* Specifications. *)

\* The operation layer: a handle made from the default configuration, an
\* empty cluster, and every operation on the index the documents live in.
Init ==
    /\ client = NewClient(DefaultConfig).handle
    /\ server = NoServer
    /\ last = Started
    /\ running = NoneRunning
    /\ heap = <<>>

Next ==
    \/ Forget
    \/ CallPing
    \/ CallInfo
    \/ CallCreateDocument(Ids, GoDocs)
    \/ CallGetDocument
    \/ CallUpdateDocument(GoDocs)
    \/ CallDeleteDocument(Ids)
    \/ CallSearchDocuments(Queries)
    \/ CallSearchAll
    \/ CallBulkCreate(BulkDocs)
    \/ CallCreateIndex(DocIndices, {NilMap})
    \/ CallDeleteIndex(DocIndices)
    \/ CallIndexExists(DocIndices)

Spec == Init /\ [][Next]_vars

\* The connection layer: no handle yet; handles are made from every
\* configuration and used.
InitClient ==
    /\ client = NoClient
    /\ server = NoServer
    /\ last = Started
    /\ running = NoneRunning
    /\ heap = <<>>

NextClient ==
    \/ Forget
    \/ CallNewClient
    \/ CallGetClient
    \/ CallPing
    \/ CallInfo

SpecClient == InitClient /\ [][NextClient]_vars

\* The index lifecycle over every index name.
NextIndex ==
    \/ Forget
    \/ CallCreateIndex(Indices, {NilMap})
    \/ CallDeleteIndex(Indices)
    \/ CallIndexExists(Indices)

SpecIndex == Init /\ [][NextIndex]_vars

\* The query builders on every input.
NextQuery ==
    \/ Forget
    \/ CallRangeQuery
    \/ CallBoolQuery
    \/ CallNotMatchQuery
    \/ CallNotTermQuery
    \/ CallMatchMapQuery
    \/ CallNotMatchMapQuery

SpecQuery == Init /\ [][NextQuery]_vars

\* Query documents built, kept, and changed by the modifiers.
NextModify ==
    \/ Forget
    \/ CallMatchQuery
    \/ CallWithSize
    \/ CallWithFrom
    \/ CallWithSort

SpecModify == Init /\ [][NextModify]_vars

\* Goroutines calling through the one handle.
NextConcurrent ==
    \E g \in Callers :
        \/ Go(g)
        \/ Run(g)
        \/ Collect(g)

SpecConcurrent == Init /\ [][NextConcurrent]_vars

\* The search scenario: documents "1".."4" with a category, some of them
\* with a stored field named _score, searched by category.
SearchIds == 1..MaxSearchIds
SearchDocs ==
    {Map1("category", GoString(c)) : c \in Categories}
        \cup {Map1("category", GoString("tutorial")) @@ Map1("_score", GoInt(100)),
              Map1("_score", GoInt(200))}
SearchQueries ==
    {MatchAllQuery}
        \cup {TermQuery("category", GoString(c)) : c \in Categories}
        \cup {NotTermQuery("category", GoString(c)) : c \in Categories}

NextSearch ==
    \/ Forget
    \/ CallCreateDocument(SearchIds, SearchDocs)
    \/ CallSearchDocuments(SearchQueries)
    \/ CallSearchAll

SpecSearch == Init /\ [][NextSearch]_vars

\* Payloads with a value that cannot be encoded, next to ones that can.
Payloads == {[value |-> GoInt(100)], [value |-> GoChan], [title |-> GoInt(100), value |-> GoChan]}
PayloadQueries == {MatchAllQuery, TermQuery("value", GoInt(100)), TermQuery("value", GoChan)}
Bodies == {NilMap} \cup {MapOf(fields) : fields \in Payloads}
BulkPayloads ==
    {WithId(doc, id) : doc \in {[value |-> GoInt(100)], [value |-> GoChan]}, id \in Ids}
        \cup {Map1("_id", GoChan) @@ [value |-> GoInt(100)]}

NextMarshal ==
    \/ Forget
    \/ CallCreateDocument(Ids, Payloads)
    \/ CallUpdateDocument(Payloads)
    \/ CallSearchDocuments(PayloadQueries)
    \/ CallCreateIndex(DocIndices, Bodies)
    \/ CallBulkCreate(BulkPayloads)

SpecMarshal == Init /\ [][NextMarshal]_vars

\* Searches that ask for hits with and without the stored body.
SourceQueries == {MatchAllQuery, MatchAllQuery @@ Map1("_source", GoBool(FALSE))}

NextSource ==
    \/ Forget
    \/ CallCreateDocument(Ids, GoDocs)
    \/ CallSearchDocuments(SourceQueries)

SpecSource == Init /\ [][NextSource]_vars

\* An index filled document by document, and SearchAll on it.
StoredIds == 1..MaxStored

NextSearchAll ==
    \/ Forget
    \/ CallCreateDocument(StoredIds, {Anonymous})
    \/ CallSearchAll

SpecSearchAll == Init /\ [][NextSearchAll]_vars

----------------------------------------------------------------------------
(* Properties: what a caller can observe. *)

\* What GetDocument returns for an identifier when the cluster answers.
Reads(srv, index, id) ==
    LET got == GetDocument(srv, NetOk, index, id)
    IN  [err |-> got.err, doc |-> got.doc]

NotFound(read) == read.err = Error("document not found")

\* A value as it comes back after its trip through JSON.
RoundTrip(v) == JSONDecode(JSONEncode(v))

\* `got` has every field of `document`, with the value that was given.
Superset(got, document) ==
    \A f \in DOMAIN document : f \in DOMAIN got /\ got[f] = RoundTrip(document[f])

\* C1, as claimed: NewClient fails with "at least one address is required"
\* on an absent or empty address list, returns a usable handle and no error
\* for every non-empty list, and sends nothing either way.
C1_NewClientAsClaimed ==
    last.op = "NewClient" =>
        /\ last.sent = 0
        /\ len(last.config.Addresses) = 0 =>
              last.err = Error("at least one address is required") /\ client.isNil
        /\ len(last.config.Addresses) > 0 =>
              last.err = Nil /\ ~client.isNil /\ ~GetClient(client).isNil

\* C2: when CreateDocument returned no error, for a new identifier or over a
\* stored one, GetDocument of the same index and identifier succeeds and
\* returns every field of the created document with its value.
C2_CreateThenGet ==
    last.op = "CreateDocument" /\ last.err = Nil =>
        LET got == Reads(server, last.index, last.id)
        IN  got.err = Nil /\ Superset(got.doc, last.document)

\* A create over a stored document, with both fields given.
C2_Overwritten ==
    /\ last.op = "CreateDocument"
    /\ last.err = Nil
    /\ last.status = StatusOK
    /\ DOMAIN last.document = Fields

\* C3: UpdateDocument on a stored document succeeds; the document then has
\* each given field with its given value and every other field as it was,
\* and every other document of the index reads as it did.
C3_UpdateMerges ==
    [][(/\ last'.op = "UpdateDocument"
        /\ last'.net = NetOk
        /\ Reads(server, last'.index, last'.id).err = Nil) =>
          LET index == last'.index
              id == last'.id
              updates == last'.document
              before == Reads(server, index, id).doc
              after == Reads(server', index, id)
          IN  /\ last'.err = Nil
              /\ after.err = Nil
              /\ DOMAIN after.doc = DOMAIN before \cup DOMAIN updates
              /\ \A f \in DOMAIN updates : after.doc[f] = RoundTrip(updates[f])
              /\ \A f \in DOMAIN before \ DOMAIN updates : after.doc[f] = before[f]
              /\ \A other \in (Ids \cup AutoIds) \ {id} :
                    Reads(server', index, other) = Reads(server, index, other)
      ]_vars

\* An update of one field of a document that holds another field, next to a
\* second document.
C3_Updated ==
    /\ last.op = "UpdateDocument"
    /\ last.err = Nil
    /\ DOMAIN last.document = {"value"}
    /\ "title" \in DOMAIN Reads(server, last.index, last.id).doc
    /\ \E other \in Ids \ {last.id} : Reads(server, last.index, other).err = Nil

\* A call that stores a document under the identifier.
Creates(call, index, id) ==
    \/ call.op = "CreateDocument" /\ call.index = index /\ call.id = id
    \/ /\ call.op = "BulkCreate"
       /\ call.index = index
       /\ \E k \in 1..Len(call.documents) :
            /\ "_id" \in DOMAIN call.documents[k]
            /\ call.documents[k]["_id"] = GoString(id)

\* C4: after a DeleteDocument that returned no error, GetDocument of that
\* identifier fails with "document not found"; an identifier that reads as
\* not found reads otherwise only after a call that creates it; and
\* DeleteDocument of an identifier that is not stored fails with "document
\* not found" and changes nothing.
C4_DeleteThenNotFound ==
    [][\A index \in DocIndices, id \in Ids :
         LET deleting == /\ last'.op = "DeleteDocument"
                         /\ last'.index = index
                         /\ last'.id = id
         IN  /\ deleting /\ last'.err = Nil => NotFound(Reads(server', index, id))
             /\ NotFound(Reads(server, index, id)) /\ ~NotFound(Reads(server', index, id))
                   => Creates(last', index, id)
             /\ deleting /\ last'.net = NetOk /\ NotFound(Reads(server, index, id))
                   => last'.err = Error("document not found") /\ server' = server
      ]_vars

\* A delete that succeeded and left another document in the index.
C4_Deleted ==
    /\ last.op = "DeleteDocument"
    /\ last.err = Nil
    /\ \E other \in Ids \ {last.id} : Reads(server, last.index, other).err = Nil

\* A bulk document's fields without its identifier, and its identifier.
Content(doc) == [f \in DOMAIN doc \ {"_id"} |-> doc[f]]
IdOf(doc) == doc["_id"].n

\* What reads back for a document that was stored as given.
ReadsAs(doc) == [err |-> Nil, doc |-> [f \in DOMAIN Content(doc) |-> RoundTrip(doc[f])]]

\* A BulkCreate of one or more documents, all with "_id", that the cluster
\* answered without rejecting an item.
BulkOfIdentified ==
    /\ last.op = "BulkCreate"
    /\ last.net = NetOk
    /\ last.rejects = {}
    /\ Len(last.documents) > 0
    /\ Unidentified(last.documents) = {}

\* C5, as claimed: BulkCreate of N documents that all carry "_id" succeeds,
\* and N documents then read back under those identifiers, each with the
\* content submitted for it.
C5_BulkCreateAsClaimed ==
    BulkOfIdentified =>
        LET docs == last.documents
        IN  /\ last.err = Nil
            /\ Cardinality({IdOf(docs[k]) : k \in 1..Len(docs)}) = Len(docs)
            /\ \A k \in 1..Len(docs) :
                  Reads(server, last.index, IdOf(docs[k])) = ReadsAs(docs[k])

\* C5: BulkCreate of documents that all carry "_id" succeeds, and every
\* identifier then reads back with the content of the last document of the
\* list that carries it; so N documents with pairwise different identifiers
\* leave N documents, each with the content submitted for it.
C5_BulkCreateLastWins ==
    BulkOfIdentified =>
        LET docs == last.documents
            Latest(k) == CHOOSE j \in k..Len(docs) :
                            /\ IdOf(docs[j]) = IdOf(docs[k])
                            /\ \A i \in (j + 1)..Len(docs) : IdOf(docs[i]) # IdOf(docs[k])
        IN  /\ last.err = Nil
            /\ \A k \in 1..Len(docs) :
                  Reads(server, last.index, IdOf(docs[k])) = ReadsAs(docs[Latest(k)])

\* A bulk of as many documents as a list may hold, with pairwise different
\* identifiers.
C5_BulkOfDistinct ==
    /\ BulkOfIdentified
    /\ Len(last.documents) = MaxDocs
    /\ \A j, k \in 1..Len(last.documents) :
          j # k => IdOf(last.documents[j]) # IdOf(last.documents[k])

\* C6: BulkCreate of an empty list returns no error, sends no request and
\* leaves the cluster as it was, whatever would happen to a request.
C6_EmptyBulkIsNoOp ==
    [][last'.op = "BulkCreate" /\ Len(last'.documents) = 0 =>
          last'.err = Nil /\ last'.sent = 0 /\ server' = server]_vars

\* An empty bulk while the transport is down and the index holds documents.
C6_EmptyBulkWhileDown ==
    /\ last.op = "BulkCreate"
    /\ Len(last.documents) = 0
    /\ last.net = NetDown
    /\ \E index \in DocIndices : DOMAIN server[index].docs # {}

\* The items of a bulk response that failed, and "type: reason" of each.
Failed(items) == SelectSeq(items, LAMBDA item : item.error.type # "")
Listing(items) ==
    [k \in 1..Len(Failed(items)) |->
        Failed(items)[k].error.type \o ": " \o Failed(items)[k].error.reason]

\* C7: when any item of the bulk response failed, BulkCreate returns an
\* error, and its message is "bulk operation had errors: " followed by the
\* type and reason of every failed item, in order, joined by "; "; the
\* message says nothing about the items that succeeded.
C7_BulkItemErrors ==
    last.op = "BulkCreate" /\ Len(Failed(last.items)) > 0 =>
        last.err = Error("bulk operation had errors: " \o Join(Listing(last.items), "; "))

\* A bulk response with two failed items.
C7_TwoItemsFailed ==
    /\ last.op = "BulkCreate"
    /\ Len(Failed(last.items)) = 2

\* The operations that send a request, and a status outside 2xx.
Requests ==
    {"Ping", "Info", "CreateDocument", "GetDocument", "UpdateDocument", "DeleteDocument",
     "SearchDocuments", "SearchAll", "BulkCreate", "CreateIndex", "DeleteIndex",
     "IndexExists"}
NonSuccess(status) == status < 200 \/ status > 299

\* C8: an operation whose request fails in transport or is answered with a
\* non-success status returns an error; the one exception is IndexExists
\* answered with 404, which returns false and no error.
C8_FailuresAreErrors ==
    (/\ last.op \in Requests
     /\ last.sent = 1
     /\ last.net.kind = "transport" \/ NonSuccess(last.status)) =>
        \/ last.err # Nil
        \/ /\ last.op = "IndexExists"
           /\ last.net.kind # "transport"
           /\ last.status = StatusNotFound
           /\ ~last.found

\* IndexExists answered with 404.
C8_ExistsAnswered404 ==
    /\ last.op = "IndexExists"
    /\ last.sent = 1
    /\ last.status = StatusNotFound
    /\ last.err = Nil

\* The operations with a not-found error, that error, and the start of their
\* error for any other status.
NotFoundOps == {"GetDocument", "UpdateDocument", "DeleteDocument", "DeleteIndex"}
NotFoundOf(op) ==
    IF op = "DeleteIndex" THEN Error("index not found") ELSE Error("document not found")
StatusErrorOf(op, status) ==
    Error((CASE op = "GetDocument" -> "get request failed with status: "
             [] op = "UpdateDocument" -> "update request failed with status: "
             [] op = "DeleteDocument" -> "delete request failed with status: "
             [] op = "DeleteIndex" -> "delete index request failed with status: ")
          \o StatusText(status))

\* C9: for GetDocument, UpdateDocument, DeleteDocument and DeleteIndex a
\* response with status 404 yields the not-found error, a response with any
\* other non-success status yields the request error that carries the
\* status, and the not-found error comes with no status but 404.
C9_NotFoundOnlyOn404 ==
    last.op \in NotFoundOps /\ last.sent = 1 /\ last.net.kind \in {"ok", "status"} =>
        /\ last.status = StatusNotFound => last.err = NotFoundOf(last.op)
        /\ last.status # StatusNotFound /\ NonSuccess(last.status) =>
              last.err = StatusErrorOf(last.op, last.status)
        /\ last.err = NotFoundOf(last.op) => last.status = StatusNotFound

\* GetDocument answered with a non-success status other than 404.
C9_GetAnsweredOther ==
    /\ last.op = "GetDocument"
    /\ last.sent = 1
    /\ NonSuccess(last.status)
    /\ last.status # StatusNotFound

\* What IndexExists returns for a name when the cluster answers.
Exists(srv, index) ==
    LET e == IndexExists(srv, NetOk, index)
    IN  [found |-> e.found, err |-> e.err]
Present == [found |-> TRUE, err |-> Nil]
Absent == [found |-> FALSE, err |-> Nil]

\* C10: IndexExists answers true exactly for the indices that exist: an
\* index is reported after a successful CreateIndex and until a successful
\* DeleteIndex, and not otherwise; DeleteIndex of a name that does not exist
\* fails with "index not found"; IndexExists changes nothing.
C10_IndexLifecycle ==
    [][\A index \in Indices :
         LET on == last'.index = index /\ last'.net = NetOk
         IN  /\ Exists(server, index) \in {Present, Absent}
             /\ Exists(server, index) = Present <=> server[index].exists
             /\ last'.op = "CreateIndex" /\ last'.index = index /\ last'.err = Nil
                   => Exists(server', index) = Present
             /\ last'.op = "DeleteIndex" /\ last'.index = index /\ last'.err = Nil
                   => Exists(server', index) = Absent
             /\ last'.op = "DeleteIndex" /\ on /\ Exists(server, index) = Absent
                   => last'.err = Error("index not found") /\ server' = server
             /\ last'.op = "IndexExists" /\ on
                   => /\ last'.err = Nil
                      /\ last'.found = (Exists(server, index) = Present)
                      /\ server' = server
             /\ Exists(server', index) # Exists(server, index)
                   => /\ last'.op \in {"CreateIndex", "DeleteIndex"}
                      /\ last'.index = index
                      /\ last'.err = Nil
      ]_vars

\* A DeleteIndex that succeeded while another index exists.
C10_IndexDeleted ==
    /\ last.op = "DeleteIndex"
    /\ last.err = Nil
    /\ Exists(server, last.index) = Absent
    /\ \E other \in Indices \ {last.index} : Exists(server, other) = Present

\* The identifiers of the entries a search returned.
IdsOf(hits) == {hits[k]["_id"].n : k \in 1..Len(hits)}

C12_SearchAllAsClaimed ==
    last.op = "SearchAll" /\ last.err = Nil =>
        Len(last.hits) = Cardinality(DOMAIN server[last.index].docs)

\* C13: in every state of the cluster and for every fate of the request,
\* SearchAll returns what SearchDocuments with MatchAllQuery() returns, the
\* same entries and the same error, and sends the same one search request.
C13_SearchAllIsMatchAll ==
    \A net \in Nets, index \in DocIndices :
        LET all == SearchAll(server, net, index)
            matched == SearchDocuments(server, net, index, MatchAllQuery)
        IN  /\ all = matched
            /\ all.sent = 1
            /\ all.search = [index |-> index, body |-> MatchAllQuery]

\* SearchAll returned several entries.
C13_SearchAllReturned ==
    /\ last.op = "SearchAll"
    /\ last.err = Nil
    /\ Len(last.hits) > 1

\* C15: with documents "1".."4" stored, the term query on a category
\* returns exactly the documents of that category, once each, the negated
\* term query exactly the other documents of the index; the two results are
\* disjoint and together they are the whole index.
C15_TermAndNegation ==
    \A index \in DocIndices, c \in Categories :
        (\A id \in SearchIds : Reads(server, index, id).err = Nil) =>
            LET with == SearchDocuments(server, NetOk, index,
                                        TermQuery("category", GoString(c)))
                without == SearchDocuments(server, NetOk, index,
                                           NotTermQuery("category", GoString(c)))
                InCategory(id) ==
                    LET doc == Reads(server, index, id).doc
                    IN  "category" \in DOMAIN doc /\ doc["category"] = GoString(c)
            IN  /\ with.err = Nil /\ without.err = Nil
                /\ IdsOf(with.hits) = {id \in SearchIds : InCategory(id)}
                /\ IdsOf(without.hits) = {id \in SearchIds : ~InCategory(id)}
                /\ Len(with.hits) = Cardinality(IdsOf(with.hits))
                /\ Len(without.hits) = Cardinality(IdsOf(without.hits))
                /\ IdsOf(with.hits) \cap IdsOf(without.hits) = {}
                /\ IdsOf(with.hits) \cup IdsOf(without.hits) = SearchIds

\* All of "1".."4" stored, both categories among them, and a negated term
\* query that returned some but not all of them.
C15_NegationReturnedSome ==
    /\ last.op = "SearchDocuments"
    /\ last.err = Nil
    /\ "bool" \in DOMAIN last.query.query
    /\ \A id \in SearchIds : Reads(server, last.index, id).err = Nil
    /\ \A c \in Categories : \E id \in SearchIds :
          server[last.index].docs[id] = Map1("category", JSONEncode(GoString(c)))
    /\ Len(last.hits) > 0
    /\ Len(last.hits) < MaxSearchIds

\* The operations that write documents.
Writes == {"CreateDocument", "UpdateDocument", "DeleteDocument", "BulkCreate"}

\* An entry of a search without the two keys SearchDocuments adds.
StoredFields(entry) == [f \in DOMAIN entry \ {"_id", "_score"} |-> entry[f]]

\* C14: every write asks for a refresh, so once a write has returned a
\* search sees what GetDocument sees, with no step in between: a search for
\* everything returns exactly the identifiers GetDocument finds, each with
\* the fields GetDocument returns for it.
C14_WritesVisible ==
    \A index \in DocIndices :
        server[index].exists =>
            LET all == SearchAll(server, NetOk, index)
            IN  /\ all.err = Nil
                /\ Len(all.hits) = Cardinality(IdsOf(all.hits))
                /\ \A id \in Ids \cup AutoIds :
                      Reads(server, index, id).err = Nil <=> id \in IdsOf(all.hits)
                /\ \A k \in 1..Len(all.hits) :
                      StoredFields(all.hits[k])
                          = Reads(server, index, all.hits[k]["_id"].n).doc

\* A delete that succeeded and left a document with both fields.
C14_WrittenAndDeleted ==
    /\ last.op = "DeleteDocument"
    /\ last.err = Nil
    /\ \E id \in Ids : DOMAIN Reads(server, last.index, id).doc = Fields

\* C16: calls made at the same time through one handle do not interfere.
\* Under every interleaving a call returns what it returns when it runs
\* alone against the cluster as its request finds it (Ping and Info against
\* a cluster that answers succeed), the calls of the other goroutines are as
\* they were, and the handle and its underlying client stay the same.
C16_CallsDoNotInterfere ==
    [][\A g \in Callers :
         running[g].pc = "started" /\ running'[g].pc = "returned" =>
            LET call == running[g]
                alone == Alone(call.op, server, call.net, call.index)
            IN  /\ running'[g].ret = Record(<<>>, alone)
                /\ server' = alone.srv
                /\ call.op \in {"Ping", "Info"} /\ call.net = NetOk
                      => running'[g].ret.err = Nil
                /\ call.op = "Info" /\ call.net = NetOk => ~running'[g].ret.docNil
                /\ \A h \in Callers \ {g} : running'[h] = running[h]
                /\ client' = client
                /\ ~running'[g].via.isNil
                /\ running'[g].via = GetClient(NewClient(DefaultConfig).handle)
      ]_vars

\* Every goroutine has returned, one of them from a call whose request
\* failed while the others' calls succeeded.
C16_AllReturned ==
    /\ \A g \in Callers : running[g].pc = "returned"
    /\ \E g \in Callers : running[g].ret.err # Nil
    /\ \E g \in Callers : running[g].op \in {"Ping", "Info"} /\ running[g].ret.err = Nil

\* The operations of the operation layer that send a request.
OperationLayer == Requests \ {"Ping", "Info"}

\* C17, as claimed: a call of an operation-layer function that goes to the
\* server makes exactly one request, also when the request fails in
\* transport or is answered with a non-success status.
C17_OneRequestAsClaimed ==
    last.op \in OperationLayer /\ last.sent = 1 /\ last.net.kind # "cancelled" =>
        last.attempts = 1

\* C18, as claimed: every operation that takes a context hands it to its
\* request, so a call with a context that is already cancelled or expired
\* returns an error and no request is completed.
C18_CancelledAsClaimed ==
    last.op \in Requests /\ last.net.kind = "cancelled" /\ last.sent = 1 =>
        last.err # Nil /\ last.attempts = 0

\* C19: RangeQuery returns a range clause for the field whose condition has
\* the key gte, with the given value, exactly when a lower bound is given,
\* and the key lte, with the given value, exactly when an upper bound is
\* given, and no other key.
C19_RangeKeys ==
    last.op = "RangeQuery" =>
        LET q == last.built
        IN  /\ DOMAIN q = {"query"}
            /\ DOMAIN q.query = {"range"}
            /\ DOMAIN q.query.range = {last.field}
            /\ LET condition == q.query.range[last.field]
               IN  /\ DOMAIN condition \subseteq {"gte", "lte"}
                   /\ "gte" \in DOMAIN condition <=> last.gte # GoNil
                   /\ "lte" \in DOMAIN condition <=> last.lte # GoNil
                   /\ "gte" \in DOMAIN condition => condition["gte"] = last.gte
                   /\ "lte" \in DOMAIN condition => condition["lte"] = last.lte

\* A range with a lower bound of zero and no upper bound.
C19_LowerBoundOnly ==
    /\ last.op = "RangeQuery"
    /\ last.gte = GoInt(0)
    /\ last.lte = GoNil
    /\ DOMAIN last.built.query.range[last.field] = {"gte"}

\* The clause list given for a key of the bool object.
Given(call, key) ==
    CASE key = "must" -> call.must
      [] key = "should" -> call.should
      [] key = "must_not" -> call.mustNot

\* C20: BoolQuery returns a query whose bool object has the key must,
\* should or must_not exactly when the list given for it has a clause (a nil
\* list and an empty list are both left out), each key holding the list
\* given; with no clause at all the bool object is there and empty.
C20_BoolKeys ==
    last.op = "BoolQuery" =>
        LET q == last.built
        IN  /\ DOMAIN q = {"query"}
            /\ DOMAIN q.query = {"bool"}
            /\ DOMAIN q.query.bool
                 = {key \in {"must", "should", "must_not"} : Len(Given(last, key).elems) > 0}
            /\ \A key \in DOMAIN q.query.bool : q.query.bool[key] = Given(last, key)

\* A bool query from a list with clauses, an empty list and a nil list.
C20_OneListOnly ==
    /\ last.op = "BoolQuery"
    /\ Len(last.must.elems) = MaxClauses
    /\ last.should = Slice(<<>>)
    /\ last.mustNot = NilSlice
    /\ DOMAIN last.built.query.bool = {"must"}

\* The modifiers, and the top-level key each of them writes.
Modifiers == {"WithSize", "WithFrom", "WithSort"}
KeyOf(op) ==
    CASE op = "WithSize" -> "size"
      [] op = "WithFrom" -> "from"
      [] op = "WithSort" -> "sort"

\* WithSize(WithSort(MatchQuery("category", "tutorial"), "views", "desc"), 10).
Chained ==
    LET matched == New(<<>>, MatchQuery("category", "tutorial"))
        sorted == WithSort(matched.heap, matched.ref, "views", "desc")
        sized == WithSize(sorted.heap, sorted.ref, 10)
    IN  sized.heap[sized.ref]

\* C21: a modifier sets its own top-level key and leaves every other key of
\* the query document as it was; the chain WithSize(WithSort(MatchQuery(
\* "category", "tutorial"), "views", "desc"), 10) holds the match leaf under
\* query, a sort list with the one entry for views with order "desc", and
\* size 10.
C21_ModifiersSetOwnKey ==
    [][last'.op \in Modifiers =>
          LET before == heap[last'.ref]
              after == heap'[last'.returned]
              key == KeyOf(last'.op)
          IN  /\ DOMAIN after = DOMAIN before \cup {key}
              /\ \A k \in DOMAIN before \ {key} : after[k] = before[k]
              /\ "query" \in DOMAIN after
              /\ DOMAIN Chained = {"query", "sort", "size"}
              /\ Chained.query = [match |-> Map1("category", GoString("tutorial"))]
              /\ Chained.sort = Slice(<<Map1("views", [order |-> "desc"])>>)
              /\ Chained.size = GoInt(10)
      ]_vars

\* The chain as the caller built it: WithSize on a document that was sorted.
C21_ChainBuilt ==
    /\ last.op = "WithSize"
    /\ last.size = 10
    /\ heap[last.returned] = Chained

\* What a modifier call writes under its key.
Setting(call) ==
    CASE call.op = "WithSize" -> GoInt(call.size)
      [] call.op = "WithFrom" -> GoInt(call.from)
      [] call.op = "WithSort" -> Slice(<<SortBy(call.field, call.order)>>)

\* C22: a modifier changes the query document it was given and returns that
\* same document: the returned reference is the one passed in, no document
\* comes into being, the document shows the new key through either
\* reference, and every other document the caller holds is as it was; a
\* builder returns a document that did not exist before and touches none.
C22_ModifiersMutateInPlace ==
    [][/\ last'.op \in Modifiers =>
            LET q == last'.ref
                r == last'.returned
                key == KeyOf(last'.op)
            IN  /\ r = q
                /\ DOMAIN heap' = DOMAIN heap
                /\ key \in DOMAIN heap'[q] /\ heap'[q][key] = Setting(last')
                /\ key \in DOMAIN heap'[r] /\ heap'[r][key] = Setting(last')
                /\ \A other \in DOMAIN heap \ {q} : heap'[other] = heap[other]
       /\ last'.op = "MatchQuery" =>
            /\ last'.returned \notin DOMAIN heap
            /\ last'.returned \in DOMAIN heap'
            /\ \A other \in DOMAIN heap : heap'[other] = heap[other]
      ]_vars

\* Two documents from two calls of the builder with the same arguments; a
\* modifier was applied to one, and the other does not have the key.
C22_OneOfTwoModified ==
    /\ last.op \in Modifiers
    /\ Len(heap) = MaxHeap
    /\ \E other \in DOMAIN heap \ {last.ref} :
          /\ heap[other].query = heap[last.ref].query
          /\ KeyOf(last.op) \notin DOMAIN heap[other]

\* The modifier of a call applied once more, with the same arguments, to
\* the heap h.
Again(call, h) ==
    CASE call.op = "WithSize" -> WithSize(h, call.ref, call.size)
      [] call.op = "WithFrom" -> WithFrom(h, call.ref, call.from)
      [] call.op = "WithSort" -> WithSort(h, call.ref, call.field, call.order)

\* C30: the modifiers are last-write-wins per key.  Whatever the document
\* held under the key before, after WithSort the sort list has exactly one
\* entry, the field and order just given, and after WithSize and WithFrom
\* the key holds the number just given; a modifier applied again with the
\* same arguments leaves the document as the first application left it.
C30_LastWriteWins ==
    [][last'.op \in Modifiers =>
          LET after == heap'[last'.ref]
          IN  /\ last'.op = "WithSort" =>
                    /\ Len(after.sort.elems) = 1
                    /\ DOMAIN after.sort.elems[1] = {last'.field}
                    /\ after.sort.elems[1][last'.field] = [order |-> last'.order]
              /\ last'.op = "WithSize" => after.size = GoInt(last'.size)
              /\ last'.op = "WithFrom" => after.from = GoInt(last'.from)
              /\ Again(last', heap').heap = heap'
      ]_vars

\* WithSort on a document that was sorted the other way round and has a
\* size.
C30_SortedAgain ==
    /\ last.op = "WithSort"
    /\ last.order = "asc"
    /\ DOMAIN last.before = {"query", "size", "sort"}
    /\ last.before.sort = Slice(<<SortBy(last.field, "desc")>>)
    /\ heap[last.ref].sort = Slice(<<SortBy(last.field, "asc")>>)

\* The clause list of a built bool query under a key, and the one field a
\* leaf of it names.
ClausesOf(built, key) == built.query.bool[key].elems
FieldOf(leaf) == CHOOSE f \in DOMAIN leaf.match : TRUE

\* C23: MatchMapQuery(m) returns a bool query with the one key must; its
\* list has one match leaf per entry of m, each leaf holding exactly one
\* field with the value m gives it, no entry missing and none twice, in
\* whatever order the map was visited; for an empty map the must key is
\* there and holds an empty list that is not nil.
C23_MatchMapLeaves ==
    last.op = "MatchMapQuery" =>
        LET m == last.fieldValues
            q == last.built
        IN  /\ DOMAIN q = {"query"}
            /\ DOMAIN q.query = {"bool"}
            /\ DOMAIN q.query.bool = {"must"}
            /\ ~q.query.bool.must.isNil
            /\ LET must == ClausesOf(q, "must")
               IN  /\ Len(must) = Cardinality(DOMAIN m)
                   /\ \A k \in 1..Len(must) :
                         /\ DOMAIN must[k] = {"match"}
                         /\ Cardinality(DOMAIN must[k].match) = 1
                         /\ FieldOf(must[k]) \in DOMAIN m
                         /\ must[k].match[FieldOf(must[k])] = m[FieldOf(must[k])]
                   /\ \A f \in DOMAIN m :
                         Cardinality({k \in 1..Len(must) : f \in DOMAIN must[k].match}) = 1

\* A map of two entries visited in the order that is not the keys' order.
C23_TwoEntriesReversed ==
    /\ last.op = "MatchMapQuery"
    /\ Cardinality(DOMAIN last.fieldValues) = 2
    /\ last.visited = <<"category", "author">>
    /\ Len(ClausesOf(last.built, "must")) = 2

\* The leaves of a clause list that name the field, whatever their kind.
LeavesFor(clauses, f) ==
    {k \in 1..Len(clauses) :
        \E kind \in {"match", "term"} :
            DOMAIN clauses[k] = {kind} /\ DOMAIN clauses[k][kind] = {f}}

\* C24: NotMatchMapQuery(m) returns a document with the top-level key query
\* holding a bool query whose must_not list has exactly one leaf per entry
\* of m: as many clauses as entries (two for a map of two), every entry's
\* field in exactly one leaf, with the entry's value.
C24_NotMatchMapLeaves ==
    last.op = "NotMatchMapQuery" =>
        LET m == last.fieldValues
            q == last.built
        IN  /\ "query" \in DOMAIN q
            /\ DOMAIN q.query = {"bool"}
            /\ "must_not" \in DOMAIN q.query.bool
            /\ LET mustNot == ClausesOf(q, "must_not")
               IN  /\ Len(mustNot) = Cardinality(DOMAIN m)
                   /\ \A f \in DOMAIN m :
                         /\ Cardinality(LeavesFor(mustNot, f)) = 1
                         /\ \A k \in LeavesFor(mustNot, f) :
                               \A kind \in DOMAIN mustNot[k] : mustNot[k][kind][f] = m[f]

\* The map of the example program: a category and an author.
C24_TwoEntriesGiven ==
    /\ last.op = "NotMatchMapQuery"
    /\ last.fieldValues = [category |-> GoString("tutorial"), author |-> GoString("Jane Smith")]
    /\ Len(ClausesOf(last.built, "must_not")) = 2

\* The kind of leaf a negated builder wraps.
LeafKind(op) == IF op = "NotMatchQuery" THEN "match" ELSE "term"

\* C25: NotMatchQuery(field, value) and NotTermQuery(field, value) return a
\* bool query whose only clause list is must_not, holding exactly one leaf,
\* a match leaf respectively a term leaf, that maps the field to the value
\* and nothing else.
C25_NegatedLeaf ==
    last.op \in {"NotMatchQuery", "NotTermQuery"} =>
        LET q == last.built
        IN  /\ DOMAIN q = {"query"}
            /\ DOMAIN q.query = {"bool"}
            /\ DOMAIN q.query.bool = {"must_not"}
            /\ ~q.query.bool.must_not.isNil
            /\ Len(ClausesOf(q, "must_not")) = 1
            /\ ClausesOf(q, "must_not")[1]
                 = Map1(LeafKind(last.op), Map1(last.field, GoString(last.value)))

\* The negated match of the example program.
C25_NegatedMatchBuilt ==
    /\ last.op = "NotMatchQuery"
    /\ last.field = "author"
    /\ last.value = "Jane Smith"
    /\ "must_not" \in DOMAIN last.built.query.bool

Unencodable(call) ==
    CASE call.op \in {"CreateDocument", "UpdateDocument"} -> MarshalError(call.document) # Nil
      [] call.op = "SearchDocuments" -> QueryMarshalError(call.query) # Nil
      [] call.op = "CreateIndex" -> ~call.body.isNil /\ MarshalError(call.body.fields) # Nil
      [] call.op = "BulkCreate" ->
            \E k \in 1..Len(call.documents) : LineError(call.documents[k]) # Nil
      [] OTHER -> FALSE

\* The serialization errors of the operations.
SerializationErrors ==
    {Error(said \o UnsupportedType) :
        said \in {"failed to marshal document: ", "failed to marshal updates: ",
                  "failed to marshal index body: ", "failed to marshal query: ",
                  "failed to marshal bulk action: "}}

\* C27: when the payload of CreateDocument, UpdateDocument, CreateIndex,
\* SearchDocuments or any document of BulkCreate's list cannot be encoded,
\* the operation returns a serialization error, sends no request and leaves
\* the cluster as it was, whatever would have happened to a request; in
\* BulkCreate also when the documents before the failing one encoded.
C27_MarshalErrorsSendNothing ==
    [][Unencodable(last') =>
          /\ last'.err \in SerializationErrors
          /\ last'.sent = 0
          /\ last'.attempts = 0
          /\ last'.request = <<>>
          /\ server' = server
      ]_vars

\* A bulk whose first document encodes and whose second does not, against a
\* cluster that answers and holds a document.
C27_SecondDocumentFails ==
    /\ last.op = "BulkCreate"
    /\ last.net = NetOk
    /\ Len(last.documents) = 2
    /\ LineError(last.documents[1]) = Nil
    /\ LineError(last.documents[2]) # Nil
    /\ last.err \in SerializationErrors
    /\ \E index \in DocIndices : DOMAIN server[index].docs # {}

\* C28, as claimed: BulkCreate leaves the caller's documents as they were,
\* "_id" included, so the same list of identified documents submitted again
\* writes to the same identifiers and the index holds as many documents as
\* before.
C28_CallerDocsAsClaimed ==
    last.op = "BulkCreate" /\ Len(last.documents) > 0 =>
        /\ last.docsAfter = last.documents
        /\ BulkOfIdentified =>
              LET again == BulkCreate(server, NetOk, last.index, last.docsAfter, {})
              IN  /\ again.err = Nil
                  /\ DOMAIN again.srv[last.index].docs = DOMAIN server[last.index].docs

\* C29, as claimed: for every success response SearchDocuments ends
\* normally, with one entry per hit that holds the hit's _id and _score,
\* also when the hits carry no stored body; no hit aborts the call.
C29_SearchEndsAsClaimed ==
    last.op = "SearchDocuments" /\ last.net = NetOk /\ server[last.index].exists =>
        LET response == SearchRequest(server, last.index, last.query).body
        IN  /\ last.err # NilMapPanic
            /\ last.err = Nil
            /\ ~last.hitsNil
            /\ Len(last.hits) = Len(response)
            /\ \A k \in 1..Len(response) :
                  /\ last.hits[k]["_id"] = GoString(response[k].id)
                  /\ last.hits[k]["_score"] = GoFloat(response[k].score)

====
